---- MODULE Spec2Model ----
(***************************************************************************)
(* Measurement function, Jacobian and zero-injection constraint algebra of *)
(* the WLS state estimator:                                                *)
(*   pandapower/estimation/algorithm/matrix_base.py                        *)
(*                                                                         *)
(* Floating point values are not computed.  Every output entry is a term   *)
(* (which admittance/derivative block it is taken from, which part of the  *)
(* complex number, which row and column of that block) and every result    *)
(* carries the voltage state V = (v, delta) at which the terms are         *)
(* evaluated.  Arrays are 1-based here (bus b of the model is bus b-1 of   *)
(* the code).  numpy arrays that the code shares by reference (delta,      *)
(* v_init, delta_init, the caller's E) live in a heap of array objects so  *)
(* that views, copies and in-place writes are what the code makes them.    *)
(***************************************************************************)
EXTENDS Integers, Sequences, FiniteSets, TLC

VARIABLES
  eppci,   \* the setup object (ExtendedPPCI) the instances are built from
  heap,    \* the numpy arrays shared by reference: array object -> entries
  alg,     \* run -> the fields of its algebra instance
  arg,     \* run -> the operation last called and what was passed to it
  ret,     \* run -> what the last call returned or raised
  pc,      \* run -> "idle", or "decoded" between _e2v and the body of a call
  hist     \* run -> history: did an earlier call pass another state vector

vars == <<eppci, heap, alg, arg, ret, pc, hist>>

\* ------------------------------------------------------------------ bounds
MaxBus == 3
MaxMeas == 2
MaxVal == 1
MaxIdx == 1

\* ------------------------------------------------------- numpy / scipy
\* one entry of a result: `part` of entry (i, j) of the derivative of quantity q
\* with respect to wrt ("th", "v"; "-" when q itself is meant, and then j = 0)
Term(part, q, wrt, i, j) == [part |-> part, q |-> q, wrt |-> wrt, i |-> i, j |-> j]

Indices(n) == [i \in 1..n |-> i]

\* np.flatnonzero: the positions of the true entries, ascending
Flatnonzero(mask) == SelectSeq(Indices(Len(mask)), LAMBDA i : mask[i])

Count(mask) == Len(Flatnonzero(mask))

\* x[idx] with an integer index array
Take(x, idx) == [k \in 1..Len(idx) |-> x[idx[k]]]

IndexInRange(n, idx) == \A k \in 1..Len(idx) : idx[k] \in 1..n

\* a 2-D array: fmt is "csr" (scipy sparse), "ndarray" (dense) or the
\* exception raised while building it
Mat(fmt, nc, rows) == [fmt |-> fmt, nc |-> nc, rows |-> rows]

Raised(e) == Mat(e, 0, <<>>)

IsArray(m) == m.fmt \in {"csr", "ndarray"}

FirstError(ms) ==
  LET bad == SelectSeq(ms, LAMBDA m : ~IsArray(m))
  IN  IF Len(bad) = 0 THEN "none" ELSE bad[1].fmt

RECURSIVE ConcatRows(_)
ConcatRows(ms) == IF Len(ms) = 0 THEN <<>> ELSE ms[1].rows \o ConcatRows(Tail(ms))

SameWidth(ms) == \A k \in 1..Len(ms) : ms[k].nc = ms[1].nc

SameHeight(ms) == \A k \in 1..Len(ms) : Len(ms[k].rows) = Len(ms[1].rows)

\* scipy.sparse.vstack: blocks under each other, equal widths
Vstack(ms) ==
  IF FirstError(ms) # "none" THEN Raised(FirstError(ms))
  ELSE IF ~SameWidth(ms) THEN Raised("ValueError")
  ELSE Mat("csr", ms[1].nc, ConcatRows(ms))

\* scipy.sparse.hstack of two blocks: side by side, equal heights
Hstack(a, b) ==
  IF FirstError(<<a, b>>) # "none" THEN Raised(FirstError(<<a, b>>))
  ELSE IF ~SameHeight(<<a, b>>) THEN Raised("ValueError")
  ELSE Mat("csr", a.nc + b.nc, [i \in 1..Len(a.rows) |-> a.rows[i] \o b.rows[i]])

\* m.toarray() and csr_matrix(m)
Toarray(m) == IF IsArray(m) THEN [m EXCEPT !.fmt = "ndarray"] ELSE m

Sparse(m) == IF IsArray(m) THEN [m EXCEPT !.fmt = "csr"] ELSE m

\* np.array(m, ndmin=2) as np.r_ / np.c_ apply it to each operand: a scipy
\* sparse matrix has no __array__, so it becomes one element of dtype object
AsArray2d(m) ==
  IF m.fmt = "csr"
  THEN Mat("ndarray", 1, << <<Term("object", "csr_matrix", "-", Len(m.rows), m.nc)>> >>)
  ELSE m

\* np.r_[...] of 2-D operands: np.concatenate along axis 0
NpR(ms) ==
  LET as == [k \in 1..Len(ms) |-> AsArray2d(ms[k])]
  IN  IF FirstError(as) # "none" THEN Raised(FirstError(as))
      ELSE IF ~SameWidth(as) THEN Raised("ValueError")
      ELSE Mat("ndarray", as[1].nc, ConcatRows(as))

\* np.c_[a, b] of 2-D operands: np.concatenate along the last axis
NpC(a, b) ==
  LET x == AsArray2d(a)
      y == AsArray2d(b)
  IN  IF FirstError(<<x, y>>) # "none" THEN Raised(FirstError(<<x, y>>))
      ELSE IF ~SameHeight(<<x, y>>) THEN Raised("ValueError")
      ELSE Mat("ndarray", x.nc + y.nc, [i \in 1..Len(x.rows) |-> x.rows[i] \o y.rows[i]])

\* elementwise operation `part` on the entries of m
MapEntries(m, part) ==
  IF IsArray(m)
  THEN [m EXCEPT !.rows = [i \in 1..Len(m.rows) |->
                             [j \in 1..Len(m.rows[i]) |->
                                [m.rows[i][j] EXCEPT !.part = part]]]]
  ELSE m

\* m.real, m.imag, np.real(m), np.imag(m) of a complex block
RealPart(m) == MapEntries(m, "real")

ImagPart(m) == MapEntries(m, "imag")

\* np.zeros_like(m): entry (i, j) is 0 (the term keeps the place it stands for)
ZerosLike(m) == MapEntries(m, "zero")

\* m[idx, :] with an integer index array (rows), IndexError when out of range
RowsAt(m, idx) ==
  IF ~IsArray(m) THEN m
  ELSE IF ~IndexInRange(Len(m.rows), idx) THEN Raised("IndexError")
  ELSE [m EXCEPT !.rows = Take(m.rows, idx)]

\* m[:, idx] with an integer index array (columns)
ColsAt(m, idx) ==
  IF ~IsArray(m) THEN m
  ELSE IF ~IndexInRange(m.nc, idx) THEN Raised("IndexError")
  ELSE Mat(m.fmt, Len(idx), [i \in 1..Len(m.rows) |-> Take(m.rows[i], idx)])

\* m[mask, :] and m[:, mask] with a boolean mask: its length must be the
\* length of the axis
RowsWhere(m, mask) ==
  IF ~IsArray(m) THEN m
  ELSE IF Len(mask) # Len(m.rows) THEN Raised("IndexError")
  ELSE RowsAt(m, Flatnonzero(mask))

ColsWhere(m, mask) ==
  IF ~IsArray(m) THEN m
  ELSE IF Len(mask) # m.nc THEN Raised("IndexError")
  ELSE ColsAt(m, Flatnonzero(mask))

\* the nr x nc block d q / d wrt, entry (i, j) in row i and column j
Block(fmt, part, q, wrt, nr, nc) ==
  Mat(fmt, nc, [i \in 1..nr |-> [j \in 1..nc |-> Term(part, q, wrt, i, j)]])

\* the vector of the n entries of quantity q
Vec(part, q, n) == [i \in 1..n |-> Term(part, q, "-", i, 0)]

\* ------------------------------------------------- the setup (eppci)
\* array objects of the heap: the setup's v_init and delta_init, and per
\* estimation run r the instance's copies of them and the caller's E
VInitRef == <<"v_init", 0>>

DeltaInitRef == <<"delta_init", 0>>

ERef(r) == <<"E", r>>

\* the full measurement space in canonical block order
BlockNames == <<"P_bus", "P_from", "P_to", "Q_bus", "Q_from", "Q_to", "v", "I_from", "I_to">>

BlockSize(name, n_bus, n_branch) ==
  IF name \in {"P_bus", "Q_bus", "v"} THEN n_bus ELSE n_branch

RECURSIVE SlotsFrom(_, _, _)
SlotsFrom(k, n_bus, n_branch) ==
  IF k > Len(BlockNames) THEN <<>>
  ELSE [i \in 1..BlockSize(BlockNames[k], n_bus, n_branch) |->
          [block |-> BlockNames[k], idx |-> i]]
       \o SlotsFrom(k + 1, n_bus, n_branch)

FullSlots(n_bus, n_branch) == SlotsFrom(1, n_bus, n_branch)

NumSlots(n_bus, n_branch) == 3 * n_bus + 6 * n_branch

\* the sets of at most k elements of 1..n
RECURSIVE SubsetsUpTo(_, _)
SubsetsUpTo(n, k) ==
  IF k = 0 THEN {{}}
  ELSE LET prev == SubsetsUpTo(n, k - 1)
       IN  prev \cup {S \cup {x} : S \in prev, x \in 1..n}

MaskOf(n, S) == [i \in 1..n |-> i \in S]

\* the setup of a radial grid of n_bus buses (branch k joins bus k and bus
\* k + 1) with reference bus ref, the measurements of the slots in meas, and
\* the reference bus's voltage magnitude fixed or free
MakeEppci(n_bus, ref, vfixed, meas) ==
  LET n_branch == n_bus - 1
      slots == FullSlots(n_bus, n_branch)
      mask == MaskOf(NumSlots(n_bus, n_branch), meas)
      non_slack_bus_mask == [b \in 1..n_bus |-> b # ref]
      observed == Flatnonzero(mask)
  IN  [n_bus |-> n_bus,
       n_branch |-> n_branch,
       branch |-> [F_BUS |-> [k \in 1..n_branch |-> k],
                   T_BUS |-> [k \in 1..n_branch |-> k + 1]],
       baseMVA |-> "baseMVA",
       bus_baseKV |-> "bus_baseKV",
       non_slack_buses |-> Flatnonzero(non_slack_bus_mask),
       num_non_slack_bus |-> Count(non_slack_bus_mask),
       delta_v_bus_mask |-> non_slack_bus_mask
                            \o [b \in 1..n_bus |-> ~(vfixed /\ b = ref)],
       non_nan_meas_mask |-> mask,
       any_i_meas |-> \E i \in 1..Len(mask) :
                         mask[i] /\ slots[i].block \in {"I_from", "I_to"},
       z |-> [i \in 1..Len(observed) |-> [meas |-> slots[observed[i]]]],
       r_cov |-> [i \in 1..Len(observed) |-> [sigma |-> slots[observed[i]]]],
       v_init |-> VInitRef,
       delta_init |-> DeltaInitRef,
       internal |-> "unset"]

\* makeYbus: the admittance matrices of the topology
makeYbus(baseMVA, n_bus, branch) ==
  [Ybus |-> [name |-> "Ybus", nr |-> n_bus, nc |-> n_bus, branch |-> branch],
   Yf |-> [name |-> "Yf", nr |-> Len(branch.F_BUS), nc |-> n_bus, branch |-> branch],
   Yt |-> [name |-> "Yt", nr |-> Len(branch.T_BUS), nc |-> n_bus, branch |-> branch]]

\* the flat start: v_init = 1, delta_init = 0 at every bus
FlatV(n_bus) == [b \in 1..n_bus |-> 1]

FlatDelta(n_bus) == [b \in 1..n_bus |-> 0]

\* the state vectors the solver passes: len entries, pairwise different, and
\* different from one vector to the next
EVec(len, c) == [j \in 1..len |-> 10 * (c + 1) + j]

EVectors(len) == {EVec(len, c) : c \in 0..MaxVal}

\* the zero-injection index arrays: ascending bus indices, at most MaxIdx
IdxArrays(n_bus) ==
  {Flatnonzero(MaskOf(n_bus, S)) : S \in SubsetsUpTo(n_bus, MaxIdx)}

\* ------------------------------------------- the power-flow derivatives
\* dSbus_dV(Ybus, V): (dS_dVm, dS_dVa), complex, sparse, n_bus x n_bus
dSbus_dV(Ybus) ==
  [dVm |-> Block("csr", "complex", "Sbus", "v", Ybus.nr, Ybus.nc),
   dVa |-> Block("csr", "complex", "Sbus", "th", Ybus.nr, Ybus.nc)]

\* dSbr_dV(branch, Yf, Yt, V): complex, sparse, n_branch x n_bus
dSbr_dV(Yf, Yt) ==
  [dSf_dVa |-> Block("csr", "complex", "Sf", "th", Yf.nr, Yf.nc),
   dSf_dVm |-> Block("csr", "complex", "Sf", "v", Yf.nr, Yf.nc),
   dSt_dVa |-> Block("csr", "complex", "St", "th", Yt.nr, Yt.nc),
   dSt_dVm |-> Block("csr", "complex", "St", "v", Yt.nr, Yt.nc)]

\* dIbr_dV(branch, Yf, Yt, V): complex, sparse, n_branch x n_bus
dIbr_dV(Yf, Yt) ==
  [dIf_dVa |-> Block("csr", "complex", "If", "th", Yf.nr, Yf.nc),
   dIf_dVm |-> Block("csr", "complex", "If", "v", Yf.nr, Yf.nc),
   dIt_dVa |-> Block("csr", "complex", "It", "th", Yt.nr, Yt.nc),
   dIt_dVm |-> Block("csr", "complex", "It", "v", Yt.nr, Yt.nc)]

\* ------------------------------------------------------- BaseAlgebra
Classes == {"BaseAlgebra", "BaseAlgebraDecoupled", "BaseAlgebraZeroInjConstraints"}

\* eppci.v_init.copy(): a new array object owned by the instance of run r
InitV(e, r) == <<"v", r>>

\* the instance's delta without the copy: the setup's own array
InitDeltaShared(e, r) == e.delta_init

\* eppci.delta_init.copy(): a new array object owned by the instance of run r
InitDelta(e, r) == <<"delta", r>>

\* initialize_Y: the matrices are stored in the setup and in the instance
initialize_Y(e) == makeYbus(e.baseMVA, e.n_bus, e.branch)

\* __init__ of an instance of class cls for run r
NewAlgebra(cls, e, r) ==
  LET Y == initialize_Y(e)
  IN  [cls |-> cls,
       fb |-> e.branch.F_BUS,
       tb |-> e.branch.T_BUS,
       n_bus |-> e.n_bus,
       n_branch |-> e.n_branch,
       baseMVA |-> e.baseMVA,
       bus_baseKV |-> e.bus_baseKV,
       num_non_slack_bus |-> e.num_non_slack_bus,
       non_slack_buses |-> e.non_slack_buses,
       delta_v_bus_mask |-> e.delta_v_bus_mask,
       non_nan_meas_mask |-> e.non_nan_meas_mask,
       any_i_meas |-> e.any_i_meas,
       delta_v_bus_selector |-> Flatnonzero(e.delta_v_bus_mask),
       non_nan_meas_selector |-> Flatnonzero(e.non_nan_meas_mask),
       z |-> e.z,
       sigma |-> e.r_cov,
       Ybus |-> Y.Ybus,
       Yf |-> Y.Yf,
       Yt |-> Y.Yt,
       v |-> [base |-> InitV(e, r), from |-> 0],
       delta |-> InitDelta(e, r)]

\* the entries of a view: array `base` from offset `from` on
ReadView(h, view) == SubSeq(h[view.base], view.from + 1, Len(h[view.base]))

\* the last k with idx[k] = b (a later assignment overwrites an earlier one)
LastAt(idx, n, b) ==
  CHOOSE k \in 1..n : idx[k] = b /\ \A m \in (k + 1)..n : idx[m] # b

\* E[:num_non_slack_bus] added to the angles instead of replacing them
e2v_accumulate(self, h, E) ==
  LET n == self.num_non_slack_bus
      d == h[self.delta]
  IN  [self |-> [self EXCEPT !.v = [base |-> E, from |-> n]],
       heap |-> [h EXCEPT ![self.delta] =
                   [b \in 1..Len(d) |->
                      IF \E k \in 1..n : self.non_slack_buses[k] = b
                      THEN d[b] + h[E][LastAt(self.non_slack_buses, n, b)]
                      ELSE d[b]]]]

\* E[:num_non_slack_bus] written to the first angles, not to non_slack_buses
e2v_unindexed(self, h, E) ==
  LET n == self.num_non_slack_bus
      d == h[self.delta]
  IN  [self |-> [self EXCEPT !.v = [base |-> E, from |-> n]],
       heap |-> [h EXCEPT ![self.delta] =
                   [b \in 1..Len(d) |-> IF b <= n THEN h[E][b] ELSE d[b]]]]

\* _e2v(E), E an array object of the heap: v becomes a view of E's tail, and
\* delta is overwritten in place at non_slack_buses
e2v(self, h, E) ==
  LET n == self.num_non_slack_bus
      d == h[self.delta]
  IN  [self |-> [self EXCEPT !.v = [base |-> E, from |-> n]],
       heap |-> [h EXCEPT ![self.delta] =
                   [b \in 1..Len(d) |->
                      IF \E k \in 1..n : self.non_slack_buses[k] = b
                      THEN h[E][LastAt(self.non_slack_buses, n, b)]
                      ELSE d[b]]]]

\* v, delta as the body of an operation reads them after _e2v
VoltageOf(self, h) == [v |-> ReadView(h, self.v), delta |-> h[self.delta]]

\* V = v * np.exp(1j * delta) needs both of one length
VOk(V) == Len(V.v) = Len(V.delta)

NoMat == Raised("none")

NoVoltage == [v |-> <<>>, delta |-> <<>>]

\* what a call returns: a vector or a matrix of terms evaluated at V, or the
\* exception it raises; dibr counts the evaluations of _dibr_dv in the call
NoRet == [status |-> "none", kind |-> "none", vec |-> <<>>, mat |-> NoMat, V |-> NoVoltage, dibr |-> 0]

RetVec(vec, V) == [NoRet EXCEPT !.status = "ok", !.kind = "vector", !.vec = vec, !.V = V]

RetRaise(e, V, n) == [NoRet EXCEPT !.status = e, !.V = V, !.dibr = n]

RetMat(m, V, n) ==
  IF IsArray(m)
  THEN [NoRet EXCEPT !.status = "ok", !.kind = "matrix", !.mat = m, !.V = V, !.dibr = n]
  ELSE RetRaise(m.fmt, V, n)

\* the full measurement vector of create_hx before the projection
hx_full(self) ==
  Vec("real", "Sbuse", self.Ybus.nr)
  \o Vec("real", "Sfe", Len(self.fb))
  \o Vec("real", "Ste", Len(self.tb))
  \o Vec("imag", "Sbuse", self.Ybus.nr)
  \o Vec("imag", "Sfe", Len(self.fb))
  \o Vec("imag", "Ste", Len(self.tb))
  \o Vec("id", "v", self.n_bus)
  \o Vec("abs", "Ife", self.Yf.nr)
  \o Vec("abs", "Ite", self.Yt.nr)

\* create_hx after its _e2v: hx[self.non_nan_meas_mask]
create_hx(self, h) ==
  LET V == VoltageOf(self, h)
      hx == hx_full(self)
  IN  IF ~VOk(V) THEN RetRaise("ValueError", V, 0)
      ELSE IF Len(self.non_nan_meas_mask) # Len(hx) THEN RetRaise("IndexError", V, 0)
      ELSE RetVec(Take(hx, Flatnonzero(self.non_nan_meas_mask)), V)

\* create_rx: (self.z - hx).ravel(), entry by entry (a length of 1 broadcasts)
create_rx(self, h) ==
  LET r == create_hx(self, h)
      z == self.z
      n == IF Len(z) > Len(r.vec) THEN Len(z) ELSE Len(r.vec)
  IN  IF r.status # "ok" THEN r
      ELSE IF Len(z) # Len(r.vec) /\ Len(z) # 1 /\ Len(r.vec) # 1
      THEN RetRaise("ValueError", r.V, 0)
      ELSE RetVec([i \in 1..n |->
                     [minuend |-> IF Len(z) = 1 THEN z[1] ELSE z[i],
                      subtrahend |-> IF Len(r.vec) = 1 THEN r.vec[1] ELSE r.vec[i]]],
                  r.V)

\* _dSbus_dv: (dSbus_dth, dSbus_dv) out of dSbus_dV's (dS_dVm, dS_dVa)
dSbus_dv(self) ==
  LET d == dSbus_dV(self.Ybus)
  IN  [dSbus_dth |-> d.dVa, dSbus_dv |-> d.dVm]

\* _dSbr_dv
dSbr_dv(self) ==
  LET d == dSbr_dV(self.Yf, self.Yt)
  IN  [dSf_dth |-> d.dSf_dVa, dSf_dv |-> d.dSf_dVm,
       dSt_dth |-> d.dSt_dVa, dSt_dv |-> d.dSt_dVm]

\* _dVbus_dv: a zero block and the identity, both sparse
dVbus_dv(n) ==
  [dv_dth |-> Block("csr", "zero", "v", "th", n, n),
   dv_dv |-> Mat("csr", n, [i \in 1..n |-> [j \in 1..n |->
                Term(IF i = j THEN "one" ELSE "zero", "v", "v", i, j)]])]

\* the finite difference (abs(1e-5 * d + I) - abs(I)) / 1e-5 of a dense block
AbsDifference(m) == MapEntries(Toarray(m), "abs_fd")

\* _dibr_dv: the derivatives of the current magnitudes, sparse again
dibr_dv(self) ==
  LET d == dIbr_dV(self.Yf, self.Yt)
  IN  [dif_dth |-> Sparse(AbsDifference(d.dIf_dVa)),
       dif_dv |-> Sparse(AbsDifference(d.dIf_dVm)),
       dit_dth |-> Sparse(AbsDifference(d.dIt_dVa)),
       dit_dv |-> Sparse(AbsDifference(d.dIt_dVm))]

\* the power rows of the Jacobian with the branch blocks in the order to, from
s_jac_swapped(th, f_th, t_th) ==
  Vstack(<<RealPart(th), RealPart(t_th), RealPart(f_th),
           ImagPart(th), ImagPart(t_th), ImagPart(f_th)>>)

\* s_jac_th and s_jac_v of create_hx_jacobian: the real parts of the bus, from
\* and to blocks over their imaginary parts
s_jac_block(bus, f, t) ==
  Vstack(<<RealPart(bus), RealPart(f), RealPart(t),
           ImagPart(bus), ImagPart(f), ImagPart(t)>>)

\* the column projection taking the first columns instead of the masked ones
project_first(jac, self) ==
  ColsAt(RowsAt(jac, self.non_nan_meas_selector),
         Indices(Len(self.delta_v_bus_selector)))

\* the column projection alone, every row kept
project_columns_only(jac, self) == ColsAt(jac, self.delta_v_bus_selector)

\* the projection of create_hx_jacobian by the index forms of the masks
project(jac, self) ==
  ColsAt(RowsAt(jac, self.non_nan_meas_selector), self.delta_v_bus_selector)

\* BaseAlgebra.create_hx_jacobian after its _e2v
create_hx_jacobian(self, h) ==
  LET V == VoltageOf(self, h)
      dSbus == dSbus_dv(self)
      dSbr == dSbr_dv(self)
      dV == dVbus_dv(Len(V.v))
      s_jac_th == s_jac_block(dSbus.dSbus_dth, dSbr.dSf_dth, dSbr.dSt_dth)
      s_jac_v == s_jac_block(dSbus.dSbus_dv, dSbr.dSf_dv, dSbr.dSt_dv)
      s_jac == Hstack(s_jac_th, s_jac_v)
      v_jac == Hstack(dV.dv_dth, dV.dv_dv)
      dI == dibr_dv(self)
      i_jac == Vstack(<<Hstack(dI.dif_dth, dI.dif_dv), Hstack(dI.dit_dth, dI.dit_dv)>>)
      jac == IF self.any_i_meas
             THEN Vstack(<<s_jac, v_jac, i_jac>>)
             ELSE Vstack(<<s_jac, v_jac>>)
  IN  IF ~VOk(V) THEN RetRaise("ValueError", V, 0)
      ELSE RetMat(project(jac, self), V, IF self.any_i_meas THEN 1 ELSE 0)

\* BaseAlgebraDecoupled.create_hx_jacobian after its _e2v: dense blocks, the
\* cross-coupling blocks zeroed; dv_dth and dv_dv stay sparse, and np.c_ of
\* two sparse matrices is a 1 x 2 array of objects
Decoupled_create_hx_jacobian(self, h) ==
  LET V == VoltageOf(self, h)
      dSbus == dSbus_dv(self)
      dSbr == dSbr_dv(self)
      dSbus_dth == Toarray(dSbus.dSbus_dth)
      dSbus_dv_ == Toarray(dSbus.dSbus_dv)
      dSf_dth == Toarray(dSbr.dSf_dth)
      dSf_dv == Toarray(dSbr.dSf_dv)
      dSt_dth == Toarray(dSbr.dSt_dth)
      dSt_dv == Toarray(dSbr.dSt_dv)
      dI == dibr_dv(self)
      dV == dVbus_dv(Len(V.v))
      s_jac_th == NpR(<<RealPart(dSbus_dth), RealPart(dSf_dth), RealPart(dSt_dth),
                        ZerosLike(dSbus_dth), ZerosLike(dSf_dth), ZerosLike(dSt_dth)>>)
      s_jac_v == NpR(<<ZerosLike(dSbus_dv_), ZerosLike(dSf_dv), ZerosLike(dSt_dv),
                       ImagPart(dSbus_dv_), ImagPart(dSf_dv), ImagPart(dSt_dv)>>)
      s_jac == NpC(s_jac_th, s_jac_v)
      v_jac == NpC(dV.dv_dth, dV.dv_dv)
      i_jac == NpR(<<NpC(Toarray(dI.dif_dth), Toarray(dI.dif_dv)),
                     NpC(Toarray(dI.dit_dth), Toarray(dI.dit_dv))>>)
      jac == NpR(<<s_jac, v_jac, i_jac>>)
  IN  IF ~VOk(V) THEN RetRaise("ValueError", V, 0)
      ELSE RetMat(ColsWhere(RowsWhere(jac, self.non_nan_meas_mask),
                            self.delta_v_bus_mask), V, 1)

\* ----------------------------------------- BaseAlgebraZeroInjConstraints
\* x * self.baseMVA
Scaled(x, baseMVA) == [i \in 1..Len(x) |-> [factor |-> baseMVA, of |-> x[i]]]

\* the constraint rows with the reactive rows first
c_rows_q_first(m, p_zero_inj, q_zero_inj) ==
  NpR(<<RowsAt(ImagPart(Toarray(m)), q_zero_inj),
        RowsAt(RealPart(Toarray(m)), p_zero_inj)>>)

\* c_jac_th and c_jac_v: the real rows at p_zero_inj over the imaginary rows
\* at q_zero_inj
c_rows(m, p_zero_inj, q_zero_inj) ==
  NpR(<<RowsAt(RealPart(Toarray(m)), p_zero_inj),
        RowsAt(ImagPart(Toarray(m)), q_zero_inj)>>)

\* create_cx after its _e2v
create_cx(self, h, p_zero_inj, q_zero_inj) ==
  LET V == VoltageOf(self, h)
      Sbus_re == Vec("real", "Sbus", self.Ybus.nr)
      Sbus_im == Vec("imag", "Sbus", self.Ybus.nr)
  IN  IF ~VOk(V) THEN RetRaise("ValueError", V, 0)
      ELSE IF ~IndexInRange(Len(Sbus_re), p_zero_inj \o q_zero_inj)
      THEN RetRaise("IndexError", V, 0)
      ELSE RetVec(Scaled(Take(Sbus_re, p_zero_inj) \o Take(Sbus_im, q_zero_inj),
                         self.baseMVA), V)

\* create_cx_jacobian after its _e2v
create_cx_jacobian(self, h, p_zero_inj, q_zero_inj) ==
  LET V == VoltageOf(self, h)
      dSbus == dSbus_dv(self)
      c_jac_th == c_rows(dSbus.dSbus_dth, p_zero_inj, q_zero_inj)
      c_jac_v == c_rows(dSbus.dSbus_dv, p_zero_inj, q_zero_inj)
      c_jac == NpC(c_jac_th, c_jac_v)
  IN  IF ~VOk(V) THEN RetRaise("ValueError", V, 0)
      ELSE RetMat(ColsWhere(c_jac, self.delta_v_bus_mask), V, 0)

\* ------------------------------------------------------ the operations
Ops(cls) ==
  {"create_rx", "create_hx", "create_hx_jacobian"}
  \cup (IF cls = "BaseAlgebraZeroInjConstraints"
        THEN {"create_cx", "create_cx_jacobian"} ELSE {})

\* the body of operation op of the instance's class, after its _e2v
Body(op, self, h, p, q) ==
  CASE op = "create_rx" -> create_rx(self, h)
    [] op = "create_hx" -> create_hx(self, h)
    [] op = "create_hx_jacobian" ->
         IF self.cls = "BaseAlgebraDecoupled"
         THEN Decoupled_create_hx_jacobian(self, h)
         ELSE create_hx_jacobian(self, h)
    [] op = "create_cx" -> create_cx(self, h, p, q)
    [] op = "create_cx_jacobian" -> create_cx_jacobian(self, h, p, q)

NoArg(E) == [op |-> "none", E |-> E, p |-> <<>>, q |-> <<>>]

Runs == DOMAIN alg

ELen(r) == alg[r].num_non_slack_bus + alg[r].n_bus

\* the history of run r after a call passing E ("off": not recorded)
Track(r, E) ==
  IF hist[r] = "off" THEN "off"
  ELSE IF arg[r].op # "none" /\ arg[r].E # E THEN "yes"
  ELSE IF arg[r].E = E THEN hist[r]
  ELSE "no"

\* run r's solver passes its array E, holding the entries in E, to operation
\* op: the decode step of the call
EnterCall(r, op, E, p, q) ==
  LET h0 == [heap EXCEPT ![ERef(r)] = E]
      d == e2v(alg[r], h0, ERef(r))
  IN  /\ pc[r] = "idle"
      /\ op \in Ops(alg[r].cls)
      /\ alg' = [alg EXCEPT ![r] = d.self]
      /\ heap' = d.heap
      /\ arg' = [arg EXCEPT ![r] = [op |-> op, E |-> E, p |-> p, q |-> q]]
      /\ ret' = [ret EXCEPT ![r] = NoRet]
      /\ pc' = [pc EXCEPT ![r] = "decoded"]
      /\ hist' = [hist EXCEPT ![r] = Track(r, E)]
      /\ UNCHANGED eppci

\* the computation step of the call: the body reads v and delta and returns
FinishCall(r) ==
  /\ pc[r] = "decoded"
  /\ ret' = [ret EXCEPT ![r] = Body(arg[r].op, alg[r], heap, arg[r].p, arg[r].q)]
  /\ pc' = [pc EXCEPT ![r] = "idle"]
  /\ UNCHANGED <<eppci, heap, alg, arg, hist>>

\* a whole call, nothing running in between
Call(r, op, E, p, q) ==
  LET h0 == [heap EXCEPT ![ERef(r)] = E]
      d == e2v(alg[r], h0, ERef(r))
  IN  /\ pc[r] = "idle"
      /\ alg' = [alg EXCEPT ![r] = d.self]
      /\ heap' = d.heap
      /\ arg' = [arg EXCEPT ![r] = [op |-> op, E |-> E, p |-> p, q |-> q]]
      /\ ret' = [ret EXCEPT ![r] = Body(op, d.self, d.heap, p, q)]
      /\ hist' = [hist EXCEPT ![r] = Track(r, E)]
      /\ UNCHANGED <<eppci, pc>>

CreateRx(r, E) == Call(r, "create_rx", E, <<>>, <<>>)

CreateHx(r, E) == Call(r, "create_hx", E, <<>>, <<>>)

CreateHxJacobian(r, E) ==
  /\ alg[r].cls # "BaseAlgebraDecoupled"
  /\ Call(r, "create_hx_jacobian", E, <<>>, <<>>)

DecoupledCreateHxJacobian(r, E) ==
  /\ alg[r].cls = "BaseAlgebraDecoupled"
  /\ Call(r, "create_hx_jacobian", E, <<>>, <<>>)

CreateCx(r, E, p, q) ==
  /\ alg[r].cls = "BaseAlgebraZeroInjConstraints"
  /\ Call(r, "create_cx", E, p, q)

CreateCxJacobian(r, E, p, q) ==
  /\ alg[r].cls = "BaseAlgebraZeroInjConstraints"
  /\ Call(r, "create_cx_jacobian", E, p, q)

\* ------------------------------------------------------ specifications
\* the start vector of the solver: the initial angles of non_slack_buses, then
\* the initial magnitudes
StartE(e) == Take(FlatDelta(e.n_bus), e.non_slack_buses) \o FlatV(e.n_bus)

\* the arrays after construction, the array E of run r holding E
NewHeap(e, runs, E) ==
  [ref \in {VInitRef, DeltaInitRef}
           \cup {<<n, r>> : n \in {"v", "delta", "E"}, r \in runs} |->
     CASE ref[1] \in {"v_init", "v"} -> FlatV(e.n_bus)
       [] ref[1] \in {"delta_init", "delta"} -> FlatDelta(e.n_bus)
       [] OTHER -> E[ref[2]]]

\* the state after the setup e0 is built and each run in runs has constructed
\* its own instance, of a class in classes, from it
InitWith(runs, setups, classes, track) ==
  \E e0 \in setups : \E cls \in [runs -> classes] :
    /\ eppci = [e0 EXCEPT !.internal = initialize_Y(e0)]
    /\ alg = [r \in runs |-> NewAlgebra(cls[r], e0, r)]
    /\ heap = NewHeap(e0, runs, [r \in runs |-> StartE(e0)])
    /\ arg = [r \in runs |-> NoArg(StartE(e0))]
    /\ ret = [r \in runs |-> NoRet]
    /\ pc = [r \in runs |-> "idle"]
    /\ hist = [r \in runs |-> track]

\* the slots of the active power of bus b, of the voltage magnitude of bus b
\* and of the current at the from end of branch k in the measurement space
PBusSlot(n, b) == b

VSlot(n, b) == 2 * n + 4 * (n - 1) + b

IFromSlot(n, k) == 3 * n + 4 * (n - 1) + k

\* every choice of at most MaxMeas measurements; reference bus 1, every
\* voltage magnitude free
MeasSetups ==
  UNION {{MakeEppci(n, 1, FALSE, S) : S \in SubsetsUpTo(NumSlots(n, n - 1), MaxMeas)}
         : n \in 2..MaxBus}

\* the voltage magnitude of reference bus 1 measured and fixed, and one power
\* injection measured
ScenarioSetups ==
  UNION {{MakeEppci(n, 1, TRUE, {VSlot(n, 1), PBusSlot(n, b)}) : b \in 1..n}
         : n \in 2..MaxBus}

\* every reference bus, its voltage magnitude fixed or free; its voltage is
\* measured, with or without the current of branch 1
StateSetups ==
  UNION {UNION {{MakeEppci(n, ref, vf, S) :
                   vf \in BOOLEAN,
                   S \in {{VSlot(n, ref)}, {VSlot(n, ref), IFromSlot(n, 1)}}}
                : ref \in 1..n}
         : n \in 2..MaxBus}

\* reference bus 1
RefOneSetups ==
  UNION {{MakeEppci(n, 1, vf, S) :
            vf \in BOOLEAN, S \in {{VSlot(n, 1)}, {VSlot(n, 1), IFromSlot(n, 1)}}}
         : n \in 2..MaxBus}

\* reference bus 1, its voltage measured
CxSetups ==
  UNION {{MakeEppci(n, 1, vf, {VSlot(n, 1)}) : vf \in BOOLEAN} : n \in 2..MaxBus}

\* one run of the base assembler over every choice of measurements
Init == InitWith({1}, MeasSetups \cup ScenarioSetups, {"BaseAlgebra"}, "off")

Next ==
  \/ \E r \in Runs : \E E \in EVectors(ELen(r)) : CreateRx(r, E)
  \/ \E r \in Runs : \E E \in EVectors(ELen(r)) : CreateHx(r, E)
  \/ \E r \in Runs : \E E \in EVectors(ELen(r)) : CreateHxJacobian(r, E)

Spec == Init /\ [][Next]_vars

\* one run of either assembler over every choice of the free state variables
InitState ==
  InitWith({1}, StateSetups, {"BaseAlgebra", "BaseAlgebraDecoupled"}, "no")

NextState ==
  \/ \E r \in Runs : \E E \in EVectors(ELen(r)) : CreateRx(r, E)
  \/ \E r \in Runs : \E E \in EVectors(ELen(r)) : CreateHx(r, E)
  \/ \E r \in Runs : \E E \in EVectors(ELen(r)) : CreateHxJacobian(r, E)
  \/ \E r \in Runs : \E E \in EVectors(ELen(r)) : DecoupledCreateHxJacobian(r, E)

SpecState == InitState /\ [][NextState]_vars

\* one run of any class, the constraint operations with every pair of index
\* arrays
InitCx == InitWith({1}, CxSetups, Classes, "off")

NextCx ==
  \/ \E r \in Runs : \E E \in EVectors(ELen(r)) : CreateRx(r, E)
  \/ \E r \in Runs : \E E \in EVectors(ELen(r)) : CreateHx(r, E)
  \/ \E r \in Runs : \E E \in EVectors(ELen(r)) : CreateHxJacobian(r, E)
  \/ \E r \in Runs : \E E \in EVectors(ELen(r)) : DecoupledCreateHxJacobian(r, E)
  \/ \E r \in Runs : \E E \in EVectors(ELen(r)) :
       \E p \in IdxArrays(alg[r].n_bus), q \in IdxArrays(alg[r].n_bus) :
         CreateCx(r, E, p, q)
  \/ \E r \in Runs : \E E \in EVectors(ELen(r)) :
       \E p \in IdxArrays(alg[r].n_bus), q \in IdxArrays(alg[r].n_bus) :
         CreateCxJacobian(r, E, p, q)

SpecCx == InitCx /\ [][NextCx]_vars

\* two runs, each with its own instance built from the one setup, their calls
\* interleaved between the decode step and the computation step
InitConc ==
  InitWith({1, 2}, RefOneSetups, {"BaseAlgebra", "BaseAlgebraDecoupled"}, "off")

NextConc ==
  \/ \E r \in Runs : \E op \in Ops(alg[r].cls) : \E E \in EVectors(ELen(r)) :
       EnterCall(r, op, E, <<>>, <<>>)
  \/ \E r \in Runs : FinishCall(r)

SpecConc == InitConc /\ [][NextConc]_vars

\* ------------------------------------------------------------ claims
Done(r, op) == pc[r] = "idle" /\ arg[r].op = op

Observed == Flatnonzero(eppci.non_nan_meas_mask)

Slots == FullSlots(eppci.n_bus, eppci.n_branch)

\* the slot of the measurement space an entry of create_hx predicts
HxSlot(t) ==
  [block |-> CASE t.part = "real" /\ t.q = "Sbuse" -> "P_bus"
               [] t.part = "real" /\ t.q = "Sfe" -> "P_from"
               [] t.part = "real" /\ t.q = "Ste" -> "P_to"
               [] t.part = "imag" /\ t.q = "Sbuse" -> "Q_bus"
               [] t.part = "imag" /\ t.q = "Sfe" -> "Q_from"
               [] t.part = "imag" /\ t.q = "Ste" -> "Q_to"
               [] t.part = "id" /\ t.q = "v" -> "v"
               [] t.part = "abs" /\ t.q = "Ife" -> "I_from"
               [] t.part = "abs" /\ t.q = "Ite" -> "I_to"
               [] OTHER -> "none",
   idx |-> t.i]

\* the slot of the measurement space a Jacobian entry is the derivative of
JacSlot(t) ==
  [block |-> CASE t.part \in {"real", "zero"} /\ t.q = "Sbus" -> "P_bus"
               [] t.part \in {"real", "zero"} /\ t.q = "Sf" -> "P_from"
               [] t.part \in {"real", "zero"} /\ t.q = "St" -> "P_to"
               [] t.part = "imag" /\ t.q = "Sbus" -> "Q_bus"
               [] t.part = "imag" /\ t.q = "Sf" -> "Q_from"
               [] t.part = "imag" /\ t.q = "St" -> "Q_to"
               [] t.part \in {"zero", "one"} /\ t.q = "v" -> "v"
               [] t.part = "abs_fd" /\ t.q = "If" -> "I_from"
               [] t.part = "abs_fd" /\ t.q = "It" -> "I_to"
               [] OTHER -> "none",
   idx |-> t.i]

\* the state variable a Jacobian entry is the derivative with respect to
ColVar(t) == [kind |-> t.wrt, bus |-> t.j]

\* the state variable stored in E[j]
EVar(j) ==
  IF j <= eppci.num_non_slack_bus
  THEN [kind |-> "th", bus |-> eppci.non_slack_buses[j]]
  ELSE [kind |-> "v", bus |-> j - eppci.num_non_slack_bus]

\* the j-th free variable of the full state space: the angles of all buses,
\* then the magnitudes of all buses, those the mask drops left out
FreeVar(j) ==
  LET k == Flatnonzero(eppci.delta_v_bus_mask)[j]
  IN  IF k <= eppci.n_bus THEN [kind |-> "th", bus |-> k]
      ELSE [kind |-> "v", bus |-> k - eppci.n_bus]

HxAligned(vec) ==
  /\ Len(vec) = Len(Observed)
  /\ \A i \in 1..Len(vec) :
       /\ HxSlot(vec[i]) = Slots[Observed[i]]
       /\ eppci.z[i].meas = Slots[Observed[i]]

\* C1: create_hx and BaseAlgebra.create_hx_jacobian use one block order and
\* one ascending row projection: entry i of create_hx(E) and every entry of
\* row i of the Jacobian belong to the i-th observed slot of the canonical
\* measurement space, the slot of z[i]; create_rx(E) is z[i] minus that entry
\* of create_hx, for each of the len(z) entries.
C1_RowsAligned ==
  \A r \in Runs :
    /\ Done(r, "create_hx") =>
         ret[r].status = "ok" /\ HxAligned(ret[r].vec)
    /\ Done(r, "create_rx") =>
         /\ ret[r].status = "ok"
         /\ Len(ret[r].vec) = Len(alg[r].z)
         /\ HxAligned([i \in 1..Len(ret[r].vec) |-> ret[r].vec[i].subtrahend])
         /\ \A i \in 1..Len(ret[r].vec) : ret[r].vec[i].minuend = alg[r].z[i]
         /\ [i \in 1..Len(ret[r].vec) |-> ret[r].vec[i].subtrahend]
              = create_hx(alg[r], heap).vec
    /\ Done(r, "create_hx_jacobian") /\ alg[r].cls = "BaseAlgebra" =>
         /\ ret[r].status = "ok"
         /\ Len(ret[r].mat.rows) = Len(Observed)
         /\ \A i \in 1..Len(ret[r].mat.rows) : \A j \in 1..ret[r].mat.nc :
              JacSlot(ret[r].mat.rows[i][j]) = Slots[Observed[i]]

C1_Witness ==
  \E r \in Runs :
    /\ Done(r, "create_hx_jacobian")
    /\ ret[r].status = "ok"
    /\ Len(ret[r].mat.rows) >= 2
    /\ JacSlot(ret[r].mat.rows[1][1]).block = "P_to"
    /\ JacSlot(ret[r].mat.rows[2][1]).block = "I_from"

\* the test scenario: three buses, the voltage magnitude of the reference bus
\* and one power injection measured, only the reference voltage fixed
Scenario ==
  /\ eppci.n_bus = 3
  /\ \E ref \in 1..3 : \E b \in 1..3 :
       /\ eppci.non_slack_buses = Flatnonzero([x \in 1..3 |-> x # ref])
       /\ Observed = <<PBusSlot(3, b), VSlot(3, ref)>>
       /\ eppci.delta_v_bus_mask =
            [x \in 1..3 |-> x # ref] \o [x \in 1..3 |-> x # ref]

\* C2: BaseAlgebra.create_hx_jacobian returns, with and without current
\* measurements, a matrix of count(non_nan_meas_mask) rows and
\* count(delta_v_bus_mask) columns; in the test scenario that is
\* (2, num_non_slack_bus + n_bus - 1).
C2_JacobianShape ==
  \A r \in Runs :
    Done(r, "create_hx_jacobian") /\ alg[r].cls = "BaseAlgebra" =>
      /\ ret[r].status = "ok"
      /\ ret[r].kind = "matrix"
      /\ Len(ret[r].mat.rows) = Count(eppci.non_nan_meas_mask)
      /\ ret[r].mat.nc = Count(eppci.delta_v_bus_mask)
      /\ \A i \in 1..Len(ret[r].mat.rows) : Len(ret[r].mat.rows[i]) = ret[r].mat.nc
      /\ Scenario =>
           /\ Len(ret[r].mat.rows) = 2
           /\ ret[r].mat.nc = eppci.num_non_slack_bus + eppci.n_bus - 1

C2_Witness ==
  \E r \in Runs :
    /\ Done(r, "create_hx_jacobian")
    /\ alg[r].cls = "BaseAlgebra"
    /\ Scenario
    /\ ret[r].status = "ok"
    /\ Len(ret[r].mat.rows) = 2
    /\ ret[r].mat.nc = 4

BaseJacobianDone(r) ==
  /\ Done(r, "create_hx_jacobian")
  /\ alg[r].cls = "BaseAlgebra"
  /\ ret[r].status = "ok"

AllMagnitudesFree ==
  \A b \in 1..eppci.n_bus : eppci.delta_v_bus_mask[eppci.n_bus + b]

\* C3 as stated: column j of the Jacobian of BaseAlgebra.create_hx_jacobian
\* is the derivative with respect to the state variable stored in E[j], for
\* every delta_v_bus_mask.
C3_ColumnsFollowE ==
  \A r \in Runs :
    BaseJacobianDone(r) =>
      \A i \in 1..Len(ret[r].mat.rows) : \A j \in 1..ret[r].mat.nc :
        ColVar(ret[r].mat.rows[i][j]) = EVar(j)

\* C3 as amended: column j of the Jacobian is the derivative with respect to
\* the j-th variable that delta_v_bus_mask leaves free, in the order angles
\* of buses 0..n_bus-1, then magnitudes of buses 0..n_bus-1; that is the
\* variable stored in E[j] when the mask leaves every voltage magnitude free.
C3_ColumnsFollowMask ==
  \A r \in Runs :
    BaseJacobianDone(r) =>
      /\ \A i \in 1..Len(ret[r].mat.rows) : \A j \in 1..ret[r].mat.nc :
           ColVar(ret[r].mat.rows[i][j]) = FreeVar(j)
      /\ AllMagnitudesFree =>
           /\ ret[r].mat.nc = Len(arg[r].E)
           /\ \A j \in 1..ret[r].mat.nc : FreeVar(j) = EVar(j)

C3_Witness ==
  \E r \in Runs :
    /\ BaseJacobianDone(r)
    /\ ~AllMagnitudesFree
    /\ Len(ret[r].mat.rows) >= 1
    /\ ret[r].mat.nc = Len(arg[r].E) - 1
    /\ eppci.non_slack_buses[1] = 1

\* what operation arg[r].op returns for arg[r] on an instance constructed
\* just now from the setup
FreshRet(r) ==
  LET h0 == NewHeap(eppci, Runs, [x \in Runs |-> arg[r].E])
      d == e2v(NewAlgebra(alg[r].cls, eppci, r), h0, ERef(r))
  IN  Body(arg[r].op, d.self, d.heap, arg[r].p, arg[r].q)

\* C4: the result of a call depends only on the E passed and the fixed
\* inputs of the run: after any sequence of earlier calls it is the result
\* of the same call on a freshly constructed instance; in particular two
\* calls of create_rx with one E return the same.
C4_NoDrift ==
  \A r \in Runs :
    pc[r] = "idle" /\ arg[r].op # "none" => ret[r] = FreshRet(r)

C4_Witness ==
  \E r \in Runs :
    /\ Done(r, "create_rx")
    /\ hist[r] = "yes"
    /\ ret[r].status = "ok"
    /\ Len(ret[r].vec) >= 1
    /\ eppci.num_non_slack_bus >= 2

\* is entry b of the full Jacobian in a cross-coupling block: active power
\* by voltage magnitude, reactive power by angle
CrossCoupling(b) ==
  /\ b.q \in {"Sbus", "Sf", "St"}
  /\ \/ b.part = "real" /\ b.wrt = "v"
     \/ b.part = "imag" /\ b.wrt = "th"

\* C5: the Jacobian BaseAlgebraDecoupled.create_hx_jacobian returns has the
\* shape of the Jacobian of BaseAlgebra.create_hx_jacobian for the same E,
\* masks and any_i_meas, zero where that one holds an active-power by
\* magnitude or reactive-power by angle entry, and its entry everywhere else.
C5_DecoupledMatchesFull ==
  \A r \in Runs :
    Done(r, "create_hx_jacobian") /\ alg[r].cls = "BaseAlgebraDecoupled" =>
      LET full == create_hx_jacobian(alg[r], heap).mat
          dec == ret[r].mat
      IN  /\ ret[r].status = "ok"
          /\ Len(dec.rows) = Len(full.rows)
          /\ dec.nc = full.nc
          /\ \A i \in 1..Len(full.rows) : \A j \in 1..full.nc :
               IF CrossCoupling(full.rows[i][j])
               THEN dec.rows[i][j].part = "zero"
               ELSE dec.rows[i][j] = full.rows[i][j]

\* C8: after a call, delta has n_bus entries, holds delta_init at every bus
\* outside non_slack_buses and entry k of the E passed at the k-th bus of
\* non_slack_buses, and v is the last n_bus entries of that E.
C8_CachedVoltage ==
  \A r \in Runs :
    LET delta == heap[alg[r].delta]
        E == arg[r].E
        n == alg[r].num_non_slack_bus
    IN  /\ Len(delta) = alg[r].n_bus
        /\ arg[r].op # "none" =>
             /\ \A b \in 1..alg[r].n_bus :
                  (\A k \in 1..n : alg[r].non_slack_buses[k] # b)
                    => delta[b] = heap[eppci.delta_init][b]
             /\ \A k \in 1..n : delta[alg[r].non_slack_buses[k]] = E[k]
             /\ ReadView(heap, alg[r].v)
                  = SubSeq(E, Len(E) - alg[r].n_bus + 1, Len(E))

C8_Witness ==
  \E r \in Runs :
    /\ arg[r].op # "none"
    /\ hist[r] = "yes"
    /\ alg[r].num_non_slack_bus >= 2
    /\ alg[r].non_slack_buses[1] = 1
    /\ heap[alg[r].delta] # heap[eppci.delta_init]

\* C9: a Jacobian call evaluates _dibr_dv if and only if any_i_meas is true,
\* in the base assembler and in the decoupled one; without current
\* measurements the Jacobian is still returned, a row for every observed
\* measurement.
C9_CurrentDerivativesGated ==
  \A r \in Runs :
    Done(r, "create_hx_jacobian") =>
      /\ (ret[r].dibr > 0) <=> alg[r].any_i_meas
      /\ ~alg[r].any_i_meas =>
           /\ ret[r].status = "ok"
           /\ Len(ret[r].mat.rows) = Count(alg[r].non_nan_meas_mask)

\* the bus and the part of the injection that constraint entry k is about
ConstraintBus(k, p, q) == IF k <= Len(p) THEN p[k] ELSE q[k - Len(p)]

ConstraintPart(k, p) == IF k <= Len(p) THEN "real" ELSE "imag"

C7_Frame ==
  [][/\ eppci' = eppci
     /\ heap'[eppci.v_init] = heap[eppci.v_init]
     /\ heap'[eppci.delta_init] = heap[eppci.delta_init]
     /\ \A r \in Runs :
          /\ heap'[ERef(r)] = arg'[r].E
          /\ [alg'[r] EXCEPT !.v = alg[r].v, !.delta = alg[r].delta] = alg[r]]_vars

C7_Witness ==
  \E r \in Runs :
    /\ Done(r, "create_cx_jacobian")
    /\ heap[alg[r].delta] # heap[eppci.delta_init]
    /\ alg[r].v.base = ERef(r)
    /\ heap[eppci.v_init] = FlatV(eppci.n_bus)

\* v and delta as _e2v leaves them on a freshly constructed instance
FreshVoltage(r) ==
  LET h0 == NewHeap(eppci, Runs, [x \in Runs |-> arg[r].E])
      d == e2v(NewAlgebra(alg[r].cls, eppci, r), h0, ERef(r))
  IN  VoltageOf(d.self, d.heap)

\* C10: two runs with an instance each, also built from one setup: however
\* their decode and computation steps interleave, each run reads the v and
\* delta of its own E and gets the result it gets alone.
C10_RunsIsolated ==
  \A r \in Runs :
    /\ arg[r].op # "none" => VoltageOf(alg[r], heap) = FreshVoltage(r)
    /\ pc[r] = "idle" /\ arg[r].op # "none" => ret[r] = FreshRet(r)
    /\ alg[r].non_nan_meas_mask = eppci.non_nan_meas_mask
    /\ alg[r].delta_v_bus_mask = eppci.delta_v_bus_mask

C10_Witness ==
  /\ Runs = {1, 2}
  /\ pc[1] = "idle"
  /\ ret[1].status = "ok"
  /\ arg[2].op # "none"
  /\ arg[1].E # arg[2].E
  /\ ret[2] = NoRet
  /\ pc[2] = "decoded"

====
